---- MODULE Spec2Model ----
(***************************************************************************)
(* HyperLogLog sketch of src/src/lib.rs: construction (new), insert and    *)
(* cardinality estimation.                                                 *)
(*                                                                         *)
(* A u64 is the set of the positions (0 = least significant) of its 1      *)
(* bits, so that 64-bit hashes are exact.  usize and u8 values are         *)
(* integers (u8 arithmetic is taken modulo 2^8).  An f64 is the exact real *)
(* it stands for, kept as a ratio or as a binary expansion; rounding of    *)
(* the floating-point unit is not modelled.                                *)
(***************************************************************************)
EXTENDS Integers, FiniteSets, Sequences

VARIABLES
    hll,          \* "none": no sketch constructed yet; "live": the HyperLogLog object exists
    b,            \* HyperLogLog.b
    b_mask,       \* HyperLogLog.b_mask
    m,            \* HyperLogLog.m
    alpha,        \* HyperLogLog.alpha, the ratio [num, den]
    registers,    \* HyperLogLog.registers: the sequence whose element j + 1 is registers[j]
    hasher_key0,  \* HyperLogLog.hasher_key0
    hasher_key1,  \* HyperLogLog.hasher_key1
    op,           \* the last call: "none", "new", "hash", "insert", "estimate"
    arg,          \* the argument of the last call (0 when it has none)
    ret,          \* what the last call returned, a record with a field kind
    x,            \* insert's local x: the hash of the value of the last insert
    repeat,       \* history: whether the value of the last insert had been inserted before
    rng_used,     \* whether the last call of new created the OS random generator
    inserted      \* history: the values insert has been called with

vars == <<hll, b, b_mask, m, alpha, registers, hasher_key0, hasher_key1,
          op, arg, ret, x, repeat, rng_used, inserted>>

sketch == <<b, b_mask, m, alpha, registers, hasher_key0, hasher_key1>>

(***************************************************************************)
(* Bounds of the model and constants of the program.                       *)
(***************************************************************************)
MaxValue == 3        \* the values offered to insert are 1..MaxValue
MaxDistinct == 49    \* distinct values of the small-range scenario
MaxRepeatBack == 2   \* small-range scenario: a value inserted again is among the newest ones
U8Max == 255
MinB == 4
MaxB == 16
HashBits == 64
SmallRangeB == 12

Pow2(n) == 2 ^ n

U8 == 0..U8Max
Values == 1..MaxValue
BitPos == 0..(HashBits - 1)

(***************************************************************************)
(* u64 operations on bit sets.                                             *)
(***************************************************************************)
\* s >> n
Shr(s, n) == {i - n : i \in {k \in s : k >= n}}

\* bit i of the usize n (n < 2^31)
BitOf(n, i) == IF i > 30 THEN 0 ELSE (n \div Pow2(i)) % 2

RECURSIVE SumPow2(_)
SumPow2(s) == IF s = {} THEN 0
              ELSE LET i == CHOOSE k \in s : TRUE
                   IN  Pow2(i) + SumPow2(s \ {i})

\* x as usize & mask
AndMask(s, mask) == SumPow2({i \in s : BitOf(mask, i) = 1})

(***************************************************************************)
(* get_alpha: the error, or the ratio num/den.                              *)
(*   0.7213 / (1 + 1.079 / 2^b) = 7213 * 2^(b-1) / (5000 * 2^b + 5395)     *)
(***************************************************************************)
get_alpha(pb) ==
    IF pb < MinB \/ pb > MaxB
    THEN [kind |-> "Err", err |-> "InvalidPrecision", b |-> pb, by |-> "get_alpha"]
    ELSE [kind |-> "Ok", ok |-> CASE pb = 4 -> [num |-> 673, den |-> 1000]
                   [] pb = 5 -> [num |-> 697, den |-> 1000]
                   [] pb = 6 -> [num |-> 709, den |-> 1000]
                   [] OTHER  -> [num |-> 7213 * Pow2(pb - 1),
                                 den |-> 5000 * Pow2(pb) + 5395]]

(***************************************************************************)
(* count_leading_zeros: the u8 counter lz is decremented once per shift;   *)
(* under records whether a decrement went below 0.                         *)
(***************************************************************************)
RECURSIVE count_leading_zeros_from(_, _, _)
count_leading_zeros_from(s, lz, under) ==
    IF s = {} THEN [lz |-> lz, under |-> under]
    ELSE count_leading_zeros_from(Shr(s, 1), (lz - 1) % (U8Max + 1), under \/ lz = 0)

count_leading_zeros(s, max_width) == count_leading_zeros_from(s, max_width, FALSE)

\* mutation of position_of_leftmost_one_bit: the + 1 forgotten
position_of_leftmost_one_bit_NoPlusOne(s, max_width) ==
    LET c == count_leading_zeros(s, max_width)
    IN  [p |-> c.lz, over |-> c.under]

position_of_leftmost_one_bit(s, max_width) ==
    LET c == count_leading_zeros(s, max_width)
    IN  [p |-> (c.lz + 1) % (U8Max + 1), over |-> c.under \/ c.lz = U8Max]

(***************************************************************************)
(* HyperLogLog::hash.  SipHasher belongs to the standard library; it is a  *)
(* deterministic function of the two keys and the value.  Its output is    *)
(* represented by a keyed table: key0 selects how values spread over the   *)
(* low 16 bits (0: distinct, 1: two colliding patterns with all index bits *)
(* but one set), key1 selects the high bits (0: none, 1: bit 63, 2: one    *)
(* bit that depends on the value).                                         *)
(***************************************************************************)
Key0Samples == {0, 1}
Key1Samples == {0, 1, 2}

HashLow(k0, value) == IF k0 = 0 THEN value - 1 ELSE 65535 - (value % 2)

HashHigh(k1, value) == CASE k1 = 0 -> {}
                         [] k1 = 1 -> {63}
                         [] OTHER  -> {16 + (value % 48)}

hash(k0, k1, value) ==
    {i \in 0..15 : BitOf(HashLow(k0, value), i) = 1} \cup HashHigh(k1, value)

(***************************************************************************)
(* raw_hyperloglog_estimate and the comparison est < 5.0 / 2.0 * m.        *)
(* The sum of 2^(-x) over the registers is kept exactly, as the integer    *)
(* part and the fractional bits (most significant first, as many as the    *)
(* largest register value).                                                *)
(***************************************************************************)
Max(S) == CHOOSE v \in S : \A u \in S : u <= v

\* how many registers hold r
CountOf(regs, r) == LET Holds(v) == v = r IN Len(SelectSeq(regs, Holds))

Histogram(regs) ==
    LET rg == {regs[j] : j \in 1..Len(regs)}
    IN  [r \in 0..Max(rg) |-> IF r \in rg THEN CountOf(regs, r) ELSE 0]

RECURSIVE SumCarry(_, _, _, _)
SumCarry(cnt, r, carry, bits) ==
    IF r = 0 THEN [int |-> cnt[0] + carry, frac |-> bits]
    ELSE SumCarry(cnt, r - 1, (cnt[r] + carry) \div 2, <<(cnt[r] + carry) % 2>> \o bits)

\* registers.iter().map(|&x| 2.0f64.powi(-(x as i32))).sum()
SumOfPowers(regs) ==
    LET cnt == Histogram(regs)
    IN  SumCarry(cnt, Max(DOMAIN cnt), 0, <<>>)

\* alpha * m * m / sum, kept as its three operands
raw_hyperloglog_estimate(a, mm, regs) ==
    [alpha |-> a, m |-> mm, sum |-> SumOfPowers(regs)]

\* mutation of count_zero_registers: the filter reversed
count_zero_registers_NonZero(regs) == LET NonZero(v) == v # 0 IN Len(SelectSeq(regs, NonZero))

\* the first n bits after the binary point of q / d, for 0 <= q < d
RECURSIVE DivBits(_, _, _)
DivBits(q, d, n) ==
    IF n = 0 THEN <<>>
    ELSE IF q >= d - q THEN <<1>> \o DivBits(q - (d - q), d, n - 1)
                       ELSE <<0>> \o DivBits(q + q, d, n - 1)

RECURSIVE BitsValue(_)
BitsValue(bits) == IF bits = <<>> THEN 0
                   ELSE 2 * BitsValue(SubSeq(bits, 1, Len(bits) - 1)) + bits[Len(bits)]

RECURSIVE Log2(_)
Log2(n) == IF n <= 1 THEN 0 ELSE 1 + Log2(n \div 2)

RECURSIVE LexGreater(_, _)
LexGreater(s, t) ==
    /\ s # <<>>
    /\ \/ Head(s) > Head(t)
       \/ Head(s) = Head(t) /\ LexGreater(Tail(s), Tail(t))

\* est < 5.0 / 2.0 * m,  that is  sum > (2 * alpha / 5) * m,  m a power of two
BelowSmallRangeThreshold(est) ==
    LET k    == Log2(est.m)
        f    == Len(est.sum.frac)
        bits == DivBits(2 * est.alpha.num, 5 * est.alpha.den, k + f)
        tint == BitsValue(SubSeq(bits, 1, k))
        tfrac == SubSeq(bits, k + 1, k + f)
    IN  \/ est.sum.int > tint
        \/ est.sum.int = tint /\ LexGreater(est.sum.frac, tfrac)

\* registers.iter().filter(|&x| *x == 0).count()
count_zero_registers(regs) == LET IsZero(v) == v = 0 IN Len(SelectSeq(regs, IsZero))

\* m * ln(m / v), kept as its two operands
linear_counting_estimate(mm, v) == [m |-> mm, v |-> v]

\* mutation of estimate_cardinality: the small range is corrected whether or
\* not a register is zero
estimate_cardinality_NoZeroTest(a, mm, regs) ==
    LET est == raw_hyperloglog_estimate(a, mm, regs)
    IN  IF BelowSmallRangeThreshold(est)
        THEN <<linear_counting_estimate(mm, count_zero_registers(regs)), "LinerCounting">>
        ELSE <<est, "HyperLogLog">>

\* the call at line 204 names m_f64, which is not defined; m_64 is meant
estimate_cardinality(a, mm, regs) ==
    LET est == raw_hyperloglog_estimate(a, mm, regs)
    IN  IF BelowSmallRangeThreshold(est)
        THEN LET v == count_zero_registers(regs)
             IN  IF v = 0
                 THEN <<est, "HyperLogLog">>
                 ELSE <<linear_counting_estimate(mm, v), "LinerCounting">>
        ELSE <<est, "HyperLogLog">>

(***************************************************************************)
(* HyperLogLog::new                                                        *)
(***************************************************************************)
\* mutation of PrecisionOutOfRange: && for ||
PrecisionOutOfRange_And(pb) == pb < MinB /\ pb > MaxB

\* the test of new:  b < 4 || b > 16
PrecisionOutOfRange(pb) == pb < MinB \/ pb > MaxB

\* 1 << b
RegisterCount(pb) == Pow2(pb)

\* mutation of IndexMask: the subtraction forgotten
IndexMask_NoMinus(mm) == mm

\* m - 1
IndexMask(mm) == mm - 1

\* vec![0; m]
ZeroRegisters(mm) == <<>> \o [j \in 1..mm |-> 0]

NoSketch ==
    /\ hll = "none"
    /\ b = 0 /\ b_mask = 0 /\ m = 0
    /\ alpha = [num |-> 0, den |-> 1]
    /\ registers = <<>>
    /\ hasher_key0 = 0 /\ hasher_key1 = 0

\* new(pb); rngOk: whether OsRng::new() succeeds; k0, k1: what rng.gen() draws.
\* A behaviour follows one call of new and the sketch it returns.
New(pb, rngOk, k0, k1) ==
    /\ hll = "none"
    /\ op = "none"
    /\ op' = "new"
    /\ arg' = pb
    /\ UNCHANGED <<inserted, x, repeat>>
    /\ IF PrecisionOutOfRange(pb)
       THEN /\ ret' = [kind |-> "Err", err |-> "InvalidPrecision", b |-> pb, by |-> "new"]
            /\ rng_used' = FALSE
            /\ UNCHANGED <<hll, sketch>>
       ELSE LET mm == RegisterCount(pb)
                a  == get_alpha(pb)
            IN  IF a.kind = "Err"
                THEN /\ ret' = a
                     /\ rng_used' = FALSE
                     /\ UNCHANGED <<hll, sketch>>
                ELSE /\ rng_used' = TRUE
                     /\ IF ~rngOk
                        THEN /\ ret' = [kind |-> "Err", err |-> "RandomnessUnavailable", b |-> pb, by |-> "new"]
                             /\ UNCHANGED <<hll, sketch>>
                        ELSE /\ ret' = [kind |-> "Ok"]
                             /\ hll' = "live"
                             /\ alpha' = a.ok
                             /\ b' = pb
                             /\ b_mask' = IndexMask(mm)
                             /\ m' = mm
                             /\ registers' = ZeroRegisters(mm)
                             /\ hasher_key0' = k0
                             /\ hasher_key1' = k1

(***************************************************************************)
(* HyperLogLog::insert                                                     *)
(***************************************************************************)
\* x as usize & self.b_mask
RegisterIndex(h, mask) == AndMask(h, mask)

\* mutation of Rank: the hash is not shifted by b
Rank_NoShift(h, pb) == position_of_leftmost_one_bit(h, (HashBits - pb) % (U8Max + 1))

\* position_of_leftmost_one_bit(x >> self.b, 64 - self.b)
Rank(h, pb) == position_of_leftmost_one_bit(Shr(h, pb), (HashBits - pb) % (U8Max + 1))

\* mutation of UpdateRegister: the register is overwritten without the test
UpdateRegister_Assign(p2, p1) == p1

\* mutation of UpdateRegister: != for <
UpdateRegister_NotEqual(p2, p1) == IF p2 # p1 THEN p1 ELSE p2

\* if *p2 < p1 { *p2 = p1; }
UpdateRegister(p2, p1) == IF p2 < p1 THEN p1 ELSE p2

\* insert from the hash h on; an index out of the vector and an overflow of
\* the u8 arithmetic (checked build) panic
InsertHashed(h) ==
    LET j  == RegisterIndex(h, b_mask)
        p1 == Rank(h, b)
    IN  IF j >= Len(registers) \/ p1.over
        THEN /\ ret' = [kind |-> "panic"]
             /\ UNCHANGED registers
        ELSE /\ ret' = [kind |-> "unit"]
             /\ registers' = [registers EXCEPT ![j + 1] = UpdateRegister(@, p1.p)]

Insert(value) ==
    /\ hll = "live"
    /\ op' = "insert"
    /\ arg' = value
    /\ inserted' = inserted \cup {value}
    /\ repeat' = (value \in inserted)
    /\ x' = hash(hasher_key0, hasher_key1, value)
    /\ InsertHashed(hash(hasher_key0, hasher_key1, value))
    /\ UNCHANGED <<hll, b, b_mask, m, alpha, hasher_key0, hasher_key1, rng_used>>

(***************************************************************************)
(* HyperLogLog::cardinality and the Debug output: estimate_cardinality(self) *)
(***************************************************************************)
\* mutation of Estimate: reading the estimate clears the registers
Estimate_Clearing ==
    /\ hll = "live"
    /\ op' = "estimate"
    /\ arg' = 0
    /\ ret' = LET e == estimate_cardinality(alpha, m, registers)
              IN  [kind |-> "estimate", value |-> e[1], estimator |-> e[2]]
    /\ registers' = ZeroRegisters(m)
    /\ UNCHANGED <<hll, b, b_mask, m, alpha, hasher_key0, hasher_key1,
                   x, repeat, rng_used, inserted>>

Estimate ==
    /\ hll = "live"
    /\ op' = "estimate"
    /\ arg' = 0
    /\ ret' = LET e == estimate_cardinality(alpha, m, registers)
              IN  [kind |-> "estimate", value |-> e[1], estimator |-> e[2]]
    /\ UNCHANGED <<hll, sketch, x, repeat, rng_used, inserted>>

(***************************************************************************)
(* The sketch from construction on: new, then insert and estimate.         *)
(***************************************************************************)
Init ==
    /\ NoSketch
    /\ op = "none" /\ arg = 0 /\ ret = [kind |-> "none"]
    /\ x = {} /\ repeat = FALSE
    /\ rng_used = FALSE
    /\ inserted = {}

Next ==
    \/ \E pb \in U8, rngOk \in BOOLEAN, k0 \in Key0Samples, k1 \in Key1Samples :
          New(pb, rngOk, k0, k1)
    \/ \E value \in Values : Insert(value)
    \/ Estimate

Spec == Init /\ [][Next]_vars

(***************************************************************************)
(* A sketch as new(pb) with keys k0, k1 returns it, holding regs.          *)
(***************************************************************************)
Constructed(pb, k0, k1, regs) ==
    /\ hll = "live"
    /\ b = pb
    /\ m = RegisterCount(pb)
    /\ b_mask = IndexMask(RegisterCount(pb))
    /\ alpha = get_alpha(pb).ok
    /\ registers = regs
    /\ hasher_key0 = k0 /\ hasher_key1 = k1
    /\ rng_used = TRUE
    /\ arg = 0 /\ repeat = FALSE

(***************************************************************************)
(* SpecRank: insert from line 90 on, for a fresh sketch of every precision *)
(* and a hash drawn from a family of 64-bit values: 0, the single bits,    *)
(* the runs of low bits, the runs of high bits and the values with a       *)
(* single 0 bit.  The values behind the hashes are not tracked.            *)
(***************************************************************************)
HashFamily ==
    {{}} \cup {{i} : i \in BitPos} \cup {0..i : i \in BitPos}
         \cup {i..(HashBits - 1) : i \in BitPos} \cup {BitPos \ {i} : i \in BitPos}

InitRank ==
    /\ \E pb \in MinB..MaxB : Constructed(pb, 0, 0, ZeroRegisters(RegisterCount(pb)))
    /\ op = "hash"
    /\ ret = [kind |-> "u64"]
    /\ x \in HashFamily
    /\ inserted = {}

InsertAfterHash ==
    /\ op = "hash"
    /\ op' = "insert"
    /\ InsertHashed(x)
    /\ UNCHANGED <<hll, b, b_mask, m, alpha, hasher_key0, hasher_key1,
                   arg, x, repeat, rng_used, inserted>>

NextRank == InsertAfterHash

SpecRank == InitRank /\ [][NextRank]_vars

(***************************************************************************)
(* SpecEst: estimate_cardinality on sketches of every precision whose      *)
(* first z registers are 0 and whose other registers hold r, for z among   *)
(* 0, 1, m/4, m/2, m-1, m and r among 1, 2 and the largest rank.  Every    *)
(* such array is one that inserts can build.  The values inserted are not  *)
(* tracked.                                                                *)
(***************************************************************************)
ZerosThen(mm, z, r) == <<>> \o [j \in 1..mm |-> IF j <= z THEN 0 ELSE r]

InitEst ==
    /\ \E pb \in MinB..MaxB :
         \E z \in {0, 1, RegisterCount(pb) \div 4, RegisterCount(pb) \div 2,
                    RegisterCount(pb) - 1, RegisterCount(pb)} :
         \E r \in {1, 2, HashBits - pb + 1} :
            Constructed(pb, 0, 0, ZerosThen(RegisterCount(pb), z, r))
    /\ op = "insert"
    /\ ret = [kind |-> "unit"]
    /\ x = {}
    /\ inserted = {}

NextEst == Estimate

SpecEst == InitEst /\ [][NextEst]_vars

(***************************************************************************)
(* SpecSmall: the small-range scenario.  A fresh sketch of precision 12;   *)
(* the values are named in the order of their first insert, so that after  *)
(* n distinct values the inserted ones are 1..n; the MaxRepeatBack newest  *)
(* of them may be inserted again.                                          *)
(***************************************************************************)
InitSmall ==
    /\ \E k0 \in Key0Samples, k1 \in Key1Samples :
          Constructed(SmallRangeB, k0, k1, ZeroRegisters(RegisterCount(SmallRangeB)))
    /\ op = "new"
    /\ ret = [kind |-> "Ok"]
    /\ x = {}
    /\ inserted = {}

NextSmall ==
    \/ \E value \in 1..MaxDistinct :
          /\ value <= Cardinality(inserted) + 1
          /\ value + MaxRepeatBack > Cardinality(inserted)
          /\ Insert(value)
    \/ Estimate

SpecSmall == InitSmall /\ [][NextSmall]_vars

(***************************************************************************)
(* What the claims speak of, stated without the operators of insert:       *)
(* the index is the number whose bits are the low b bits of the hash, and  *)
(* the rank is 1 + the count of leading zeros of the remainder within its  *)
(* window of 64 - b bits.                                                  *)
(***************************************************************************)
LowBitsIndex(h, pb) == SumPow2({i \in h : i < pb})

WindowRank(h, pb) ==
    LET high == {i \in h : i >= pb}
    IN  IF high = {} THEN (HashBits - pb) + 1
        ELSE (HashBits - 1 - Max(high)) + 1

HashOf(value) == hash(hasher_key0, hasher_key1, value)

\* C1: for every precision 4 <= p <= 16, when the randomness source works,
\* new(p) succeeds and the sketch has b = p, m = 2^p, b_mask = 2^p - 1 and
\* exactly m registers, all 0.
C1_NewInRange ==
    /\ (op = "new" /\ arg >= 4 /\ arg <= 16 /\ ret.kind = "Err")
          => ret.err = "RandomnessUnavailable"
    /\ (op = "new" /\ arg >= 4 /\ arg <= 16 /\ ret.kind = "Ok")
          => /\ hll = "live"
             /\ b = arg
             /\ m = 2 ^ arg
             /\ b_mask = 2 ^ arg - 1
             /\ Len(registers) = 2 ^ arg
             /\ \A j \in 1..Len(registers) : registers[j] = 0

C1_Witness ==
    /\ op = "new" /\ arg = 16 /\ ret.kind = "Ok"
    /\ hll = "live" /\ Len(registers) = 65536 /\ b_mask = 65535

\* C2: for every precision outside 4..16, new returns the invalid-precision
\* error raised by its own range check, no sketch is created, and the
\* randomness source is not touched.
C2_NewOutOfRange ==
    (op = "new" /\ (arg < 4 \/ arg > 16))
        => /\ ret = [kind |-> "Err", err |-> "InvalidPrecision", b |-> arg, by |-> "new"]
           /\ NoSketch
           /\ ~rng_used

C2_Witness ==
    /\ op = "new" /\ arg = 17
    /\ ret.kind = "Err" /\ ret.err = "InvalidPrecision"
    /\ hll = "none"

\* C3: inserting a value that has been inserted before leaves the whole
\* register array as it was.
C3_InsertIdempotent ==
    [][(op' = "insert" /\ arg' \in inserted) => registers' = registers]_vars

C3_Witness ==
    /\ op = "insert" /\ repeat
    /\ Cardinality(inserted) >= 2
    /\ \E u \in inserted : u # arg /\ LowBitsIndex(HashOf(u), b) = LowBitsIndex(x, b)

\* C4: no insert lowers any register, and none changes the number of registers.
C4_RegistersMonotone ==
    [][op' = "insert" =>
          /\ Len(registers') = Len(registers)
          /\ \A j \in 1..Len(registers) : registers'[j] >= registers[j]]_vars

C4_Witness ==
    /\ op = "insert" /\ ~repeat
    /\ registers[LowBitsIndex(x, b) + 1] > WindowRank(x, b)

\* C6: estimate changes no field of the sketch, and an estimate that follows
\* an estimate returns the same value and the same estimator kind.
C6_EstimatePure ==
    [][op' = "estimate" =>
          /\ sketch' = sketch
          /\ hll' = hll
          /\ op = "estimate" => ret' = ret]_vars

C6_Witness ==
    /\ op = "estimate" /\ inserted # {}
    /\ \E j \in 1..Len(registers) : registers[j] # 0

\* C9: every register holds the maximum rank over the inserted values whose
\* hash selects it, and 0 when no inserted value selects it.
C9_RegisterContent ==
    hll = "live" =>
        LET pairs   == {<<LowBitsIndex(HashOf(v), b), WindowRank(HashOf(v), b)>> : v \in inserted}
            touched == {pr[1] : pr \in pairs}
        IN  /\ Len(registers) = m
            /\ \A j \in 0..(m - 1) :
                  registers[j + 1] =
                      IF j \in touched
                      THEN Max({pr[2] : pr \in {q \in pairs : q[1] = j}})
                      ELSE 0

C9_Witness ==
    /\ hll = "live"
    /\ \E u, v \in inserted :
          /\ LowBitsIndex(HashOf(u), b) = LowBitsIndex(HashOf(v), b)
          /\ WindowRank(HashOf(u), b) < WindowRank(HashOf(v), b)
          /\ registers[LowBitsIndex(HashOf(v), b) + 1] = WindowRank(HashOf(v), b)
          /\ arg = u /\ op = "insert"

\* C7: for every precision 4..16 and every hash, insert does not panic: the
\* index is below the register count, the leading-zero counter does not go
\* below 0 and the rank fits a u8.
C7_InsertTotal ==
    op = "insert" =>
        /\ ret.kind = "unit"
        /\ RegisterIndex(x, b_mask) < Len(registers)
        /\ ~count_leading_zeros(Shr(x, b), HashBits - b).under
        /\ ~Rank(x, b).over
        /\ Rank(x, b).p <= U8Max

C7_Witness ==
    /\ op = "insert" /\ ret.kind = "unit"
    /\ b = 4 /\ x = BitPos
    /\ registers[16] = 1

\* C8 as claimed: a remainder of 0 gives the rank 64 - precision, and no
\* register exceeds 64 - precision.
C8_RankOfZeroRemainder_Claimed ==
    op = "insert" =>
        /\ {i \in x : i >= b} = {} => registers[LowBitsIndex(x, b) + 1] = HashBits - b
        /\ \A j \in 1..Len(registers) : registers[j] <= HashBits - b

\* C8 amended: a remainder of 0 gives the rank 64 - precision + 1 (the
\* 64 - precision leading zeros of the window, plus one), and no register
\* exceeds 64 - precision + 1.
C8_RankOfZeroRemainder ==
    op = "insert" =>
        /\ {i \in x : i >= b} = {} => registers[LowBitsIndex(x, b) + 1] = HashBits - b + 1
        /\ \A j \in 1..Len(registers) : registers[j] <= HashBits - b + 1

C8_Witness ==
    /\ op = "insert" /\ ret.kind = "unit"
    /\ b = 12 /\ x = 0..11
    /\ registers[4096] = 53

\* C5: estimate returns the linear-counting estimate of m and the number v of
\* zero registers, with the kind LinerCounting, exactly when the raw estimate
\* is below 2.5 * m and v > 0; in every other case it returns the raw
\* estimate with the kind HyperLogLog.
C5_EstimatorSelection ==
    op = "estimate" =>
        LET raw == [alpha |-> alpha, m |-> m, sum |-> SumOfPowers(registers)]
            v   == Cardinality({j \in 1..Len(registers) : registers[j] = 0})
        IN  IF BelowSmallRangeThreshold(raw) /\ v > 0
            THEN ret = [kind |-> "estimate", value |-> [m |-> m, v |-> v],
                        estimator |-> "LinerCounting"]
            ELSE ret = [kind |-> "estimate", value |-> raw, estimator |-> "HyperLogLog"]

\* the raw estimate is below the threshold and no register is zero
C5_Witness ==
    /\ op = "estimate" /\ ret.estimator = "HyperLogLog"
    /\ BelowSmallRangeThreshold(ret.value)
    /\ \A j \in 1..Len(registers) : registers[j] # 0

\* C10: in a sketch of precision 12, after inserts of fewer than 50 distinct
\* values, the raw estimate is below 2.5 * 4096, a register is zero, and
\* estimate returns the linear-counting estimate of the current number of
\* zero registers, with the kind LinerCounting.
C10_SmallRange ==
    (op = "estimate" /\ b = 12 /\ Cardinality(inserted) < 50) =>
        LET v == Cardinality({j \in 1..Len(registers) : registers[j] = 0})
        IN  /\ v > 0
            /\ BelowSmallRangeThreshold([alpha |-> alpha, m |-> 4096,
                                         sum |-> SumOfPowers(registers)])
            /\ ret = [kind |-> "estimate", value |-> [m |-> 4096, v |-> v],
                      estimator |-> "LinerCounting"]

C10_Witness ==
    /\ op = "estimate" /\ b = 12 /\ Cardinality(inserted) = 49
    /\ ret.estimator = "LinerCounting" /\ ret.value.v = 4096 - 49
    /\ repeat

====
